---- MODULE Spec2Model ----
(***************************************************************************)
(* A model of the post-decode pixel pipeline of h263-rs:                   *)
(*   - deblock/src/deblock.rs : the H.263 Annex J style edge filter         *)
(*     (scalar `process`, 8-lane `process_simd`) and the plane passes       *)
(*     `deblock_horiz`, `deblock_vert`, `deblock`;                          *)
(*   - yuv/src/bt601.rs : the BT.601 lookup tables, `yuv_to_rgb`, the       *)
(*     two-stage chroma interpolation and `yuv420_to_rgba`.                 *)
(* Samples are u8 (0..255); intermediate values are i16 / u16 / usize and   *)
(* are narrowed exactly where the source narrows them.                      *)
(***************************************************************************)
EXTENDS Integers, Sequences, FiniteSets, TLC

VARIABLES
    \* ---- edge filter (process / process_simd) ----
    edgePc,      \* "idle" | "loaded"
    rowA, rowB, rowC, rowD,   \* the four 8-sample slices handed to process_simd
    lane,        \* the lane whose four samples are also handed to process
    strength,    \* the strength argument
    scalarOut,   \* <<A',B',C',D'>> written by process, <<>> before the call
    simdOut,     \* <<A',B',C',D'>> (four 8-sample slices) written by process_simd
    \* ---- plane passes (deblock_horiz / deblock_vert / deblock) ----
    planePc,     \* "idle" | "loaded" | "done"
    data,        \* the input plane, a function 0..len-1 -> u8
    width,       \* the width argument
    planeStrength,
    overflow_checks,  \* build setting: arithmetic overflow panics (debug) or wraps
    planeOp,     \* "none" | "deblock_horiz" | "deblock_vert" | "deblock"
    result,      \* the plane after the call
    planePanic,  \* TRUE iff the call panicked
    \* ---- colour conversion (yuv420_to_rgba) ----
    yuvPc,       \* "idle" | "loaded" | "done"
    y, chroma_b, chroma_r,    \* the three input planes, functions 0..len-1 -> u8
    y_width, br_width,
    debug_assertions, \* build setting: debug_assert! is compiled in
    rgba,        \* the returned buffer, a function 0..len-1 -> u8
    writes,      \* per RGBA byte: how many times the interior loop wrote it
    evaluated,   \* the assertions / divisions evaluated by the call, in order
    yuvPanic,    \* TRUE iff the call panicked
    \* ---- one colour (yuv_to_rgb) ----
    colourPc,    \* "idle" | "loaded" | "done"
    colourIn,    \* the argument <<y, cb, cr>>
    colourOut    \* the returned <<r, g, b>>, << >> before the call

edgeVars  == <<edgePc, rowA, rowB, rowC, rowD, lane, strength, scalarOut, simdOut>>
planeVars == <<planePc, data, width, planeStrength, overflow_checks, planeOp,
               result, planePanic>>
yuvVars   == <<yuvPc, y, chroma_b, chroma_r, y_width, br_width, debug_assertions,
               rgba, writes, evaluated, yuvPanic>>
colourVars == <<colourPc, colourIn, colourOut>>
vars      == <<edgeVars, planeVars, yuvVars, colourVars>>

(***************************************************************************)
(* Bounds of the model.                                                    *)
(***************************************************************************)
\* Edge-filter samples are drawn from 0..SampleSpan and 255-SampleSpan..255.
SampleSpan == 2
\* ... and from the grid 0, 8, .., 8*GridSteps and 255, 247, .., 255-8*GridSteps.
GridSteps == 2
\* Input planes of the deblocking passes are 1..MaxWidth samples wide and
\* 0..MaxHeight rows high, with block levels PlaneLevel(0..MaxLevel).
MaxWidth == 18
MaxHeight == 10
MaxLevel == 2
\* Frames of the colour conversion are 1..MaxYWidth by 1..MaxYHeight luma
\* samples, their planes drawn from the seeds 0..MaxSeed; with an empty Y
\* plane the chroma planes hold 0..MaxEmptyChroma samples.
MaxYWidth == 5
MaxYHeight == 5
MaxSeed == 2
MaxEmptyChroma == 2

(***************************************************************************)
(* Program constants.                                                      *)
(***************************************************************************)
\* The largest entry of QUANT_TO_STRENGTH.
MaxStrength == 12
\* The number of i16 lanes of wide::i16x8.
Lanes == 8

(***************************************************************************)
(* Machine arithmetic.                                                     *)
(***************************************************************************)
Abs(x) == IF x < 0 THEN -x ELSE x
Max(a, b) == IF a >= b THEN a ELSE b
Min(a, b) == IF a <= b THEN a ELSE b

\* Rust's `/` on signed integers truncates toward zero (divisor > 0 here).
TruncDiv(a, b) == IF a >= 0 THEN a \div b ELSE -((-a) \div b)

\* `>>` on a signed integer is an arithmetic shift: floor division by 2^n.
Shr(a, n) == a \div (2 ^ n)

\* Two's-complement wrap to i16, as wide::i16x8 arithmetic does.
WrapI16(x) == ((x + 32768) % 65536) - 32768

\* `as u8` of an i16 or u16 keeps the low 8 bits.
AsU8(x) == x % 256

\* i16::clamp / the clamp of the source.
Clamp(x, lo, hi) == IF x < lo THEN lo ELSE IF x > hi THEN hi ELSE x

Signum(x) == IF x > 0 THEN 1 ELSE IF x < 0 THEN -1 ELSE 0

\* The values of a u8.
U8 == 0 .. 255

(***************************************************************************)
(* deblock.rs: the scalar edge filter.                                     *)
(***************************************************************************)
\* fn up_down_ramp(x, strength)
up_down_ramp(x, s) == Signum(x) * Max(Abs(x) - Max(2 * (Abs(x) - s), 0), 0)

\* fn clipd1(x, lim)
clipd1(x, lim) == Clamp(x, -Abs(lim), Abs(lim))

\* A precedence slip in the first difference: only D is divided by 8.
process_d_slip(a, b, c, d) == a - 4 * b + 4 * c - TruncDiv(d, 8)

\* process, line 65: let d = (a16 - 4 * b16 + 4 * c16 - d16) / 8
process_d(a, b, c, d) == TruncDiv(a - 4 * b + 4 * c - d, 8)

\* The second difference with the arguments of clipd1 exchanged: d1 / 2
\* clipped to +/- |(A - D) / 4|.
process_d2_swapped(a, b, c, d, s) ==
    clipd1(TruncDiv(up_down_ramp(process_d(a, b, c, d), s), 2), TruncDiv(a - d, 4))

\* process, lines 66-67: let d1 = up_down_ramp(d, strength);
\*                        let d2 = clipd1((a16 - d16) / 4, d1 / 2)
process_d2(a, b, c, d, s) ==
    clipd1(TruncDiv(a - d, 4), TruncDiv(up_down_ramp(process_d(a, b, c, d), s), 2))

\* fn process(A, B, C, D, strength): the four samples after the call.
process(a, b, c, d, s) ==
    LET dd == process_d(a, b, c, d)
        d1 == up_down_ramp(dd, s)
        d2 == process_d2(a, b, c, d, s)
    IN  << AsU8(a - d2),
           AsU8(Clamp(b + d1, 0, 255)),
           AsU8(Clamp(c - d1, 0, 255)),
           AsU8(d + d2) >>

(***************************************************************************)
(* deblock.rs: the 8-lane edge filter.  Every wide::i16x8 operation is     *)
(* lane-wise and wrapping, so each helper is given for one lane.           *)
(***************************************************************************)
\* fn signum_simd(x): (x < 0 ? -1 : 0) - (x > 0 ? -1 : 0)
signum_simd(x) == (IF x < 0 THEN -1 ELSE 0) - (IF x > 0 THEN -1 ELSE 0)

\* fn up_down_ramp_simd(x, strength)
up_down_ramp_simd(x, s) ==
    WrapI16(signum_simd(x)
            * Max(WrapI16(Abs(x) - Max(WrapI16(2 * WrapI16(Abs(x) - s)), 0)), 0))

\* fn clamp_simd(x, min, max): x.max(min).min(max)
clamp_simd(x, lo, hi) == Min(Max(x, lo), hi)

\* fn clipd1_simd(x, lim)
clipd1_simd(x, lim) == LET la == Abs(lim) IN clamp_simd(x, -la, la)

\* process_simd, line 119: let d = (a16 - 4 * b16 + 4 * c16 - d16).shr(3)
process_simd_d(a, b, c, d) == Shr(WrapI16(a - 4 * b + 4 * c - d), 3)

\* process_simd, lines 120-121, for one lane:
\*   let d1 = up_down_ramp_simd(d, strength);
\*   let d2 = clipd1_simd((a16 - d16).shr(2), d1.shr(1))
process_simd_d2(a, b, c, d, s) ==
    clipd1_simd(Shr(WrapI16(a - d), 2),
                Shr(up_down_ramp_simd(process_simd_d(a, b, c, d), s), 1))

\* process_simd, lines 119-137, for one lane.
process_simd_lane(a, b, c, d, s) ==
    LET dd == process_simd_d(a, b, c, d)
        d1 == up_down_ramp_simd(dd, s)
        d2 == process_simd_d2(a, b, c, d, s)
    IN  << AsU8(WrapI16(a - d2)),
           AsU8(clamp_simd(WrapI16(b + d1), 0, 255)),
           AsU8(clamp_simd(WrapI16(c - d1), 0, 255)),
           AsU8(WrapI16(d + d2)) >>

LaneIdx == 0 .. (Lanes - 1)

\* fn process_simd(A, B, C, D, strength): the four slices after the call.
process_simd(A, B, C, D, s) ==
    LET out == [i \in LaneIdx |-> process_simd_lane(A[i], B[i], C[i], D[i], s)]
    IN  << [i \in LaneIdx |-> out[i][1]],
           [i \in LaneIdx |-> out[i][2]],
           [i \in LaneIdx |-> out[i][3]],
           [i \in LaneIdx |-> out[i][4]] >>

(***************************************************************************)
(* The edge filter as a state machine: four 8-sample slices are loaded,    *)
(* then process is called on the samples of one lane and process_simd on   *)
(* the slices, in either order.                                            *)
(***************************************************************************)
Samples == (0 .. SampleSpan) \cup ((255 - SampleSpan) .. 255)
Strengths == 0 .. MaxStrength

InitEdge ==
    /\ edgePc = "idle"
    /\ rowA = [i \in LaneIdx |-> 0]
    /\ rowB = [i \in LaneIdx |-> 0]
    /\ rowC = [i \in LaneIdx |-> 0]
    /\ rowD = [i \in LaneIdx |-> 0]
    /\ lane = 0
    /\ strength = 0
    /\ scalarOut = << >>
    /\ simdOut = << >>

\* The caller's slices: lane k (the first or the last) holds (a, b, c, d);
\* every other lane is flat at the value of a.
LoadEdge ==
    /\ edgePc = "idle"
    /\ \E a \in Samples, b \in Samples, c \in Samples, d \in Samples,
          s \in Strengths, k \in {0, Lanes - 1} :
          /\ rowA' = [i \in LaneIdx |-> a]
          /\ rowB' = [i \in LaneIdx |-> IF i = k THEN b ELSE a]
          /\ rowC' = [i \in LaneIdx |-> IF i = k THEN c ELSE a]
          /\ rowD' = [i \in LaneIdx |-> IF i = k THEN d ELSE a]
          /\ lane' = k
          /\ strength' = s
    /\ edgePc' = "loaded"
    /\ UNCHANGED <<scalarOut, simdOut>>
    /\ UNCHANGED <<planeVars, yuvVars, colourVars>>

\* Samples on a grid of step 8 from both ends of the range, where the
\* differences across the edge are of the size of the strengths.
GridSamples == { 8 * k : k \in 0 .. GridSteps } \cup { 255 - 8 * k : k \in 0 .. GridSteps }

\* The caller's slices: lane 0 holds (a, b, c, d) from the grid; every other
\* lane is flat at the value of a.
LoadGrid ==
    /\ edgePc = "idle"
    /\ \E a \in GridSamples, b \in GridSamples, c \in GridSamples,
          d \in GridSamples, s \in Strengths :
          /\ rowA' = [i \in LaneIdx |-> a]
          /\ rowB' = [i \in LaneIdx |-> IF i = 0 THEN b ELSE a]
          /\ rowC' = [i \in LaneIdx |-> IF i = 0 THEN c ELSE a]
          /\ rowD' = [i \in LaneIdx |-> IF i = 0 THEN d ELSE a]
          /\ lane' = 0
          /\ strength' = s
    /\ edgePc' = "loaded"
    /\ UNCHANGED <<scalarOut, simdOut>>
    /\ UNCHANGED <<planeVars, yuvVars, colourVars>>

\* The caller's slices over a flat region: every sample is v, any u8.
LoadFlat ==
    /\ edgePc = "idle"
    /\ \E v \in U8, s \in Strengths, k \in {0, Lanes - 1} :
          /\ rowA' = [i \in LaneIdx |-> v]
          /\ rowB' = [i \in LaneIdx |-> v]
          /\ rowC' = [i \in LaneIdx |-> v]
          /\ rowD' = [i \in LaneIdx |-> v]
          /\ lane' = k
          /\ strength' = s
    /\ edgePc' = "loaded"
    /\ UNCHANGED <<scalarOut, simdOut>>
    /\ UNCHANGED <<planeVars, yuvVars, colourVars>>

\* process(&mut A, &mut B, &mut C, &mut D, strength) on the samples of `lane`.
Process ==
    /\ edgePc = "loaded"
    /\ scalarOut = << >>
    /\ scalarOut' = process(rowA[lane], rowB[lane], rowC[lane], rowD[lane], strength)
    /\ UNCHANGED <<edgePc, rowA, rowB, rowC, rowD, lane, strength, simdOut>>
    /\ UNCHANGED <<planeVars, yuvVars, colourVars>>

\* process_simd(A, B, C, D, strength) on the four slices.
ProcessSimd ==
    /\ edgePc = "loaded"
    /\ simdOut = << >>
    /\ simdOut' = process_simd(rowA, rowB, rowC, rowD, strength)
    /\ UNCHANGED <<edgePc, rowA, rowB, rowC, rowD, lane, strength, scalarOut>>
    /\ UNCHANGED <<planeVars, yuvVars, colourVars>>

NextEdge == LoadEdge \/ LoadGrid \/ LoadFlat \/ Process \/ ProcessSimd

(***************************************************************************)
(* deblock.rs: the plane passes.  A plane is a function 0..len-1 -> u8,    *)
(* row-major, `width` samples per row.                                     *)
(***************************************************************************)
PlaneLen(p) == Cardinality(DOMAIN p)

\* fn deblock_horiz, one iteration of the while loop (lines 145-158) for the
\* edge row edge_y: the four rows are split off and process_simd runs on
\* every complete group of 8 columns (chunks_exact_mut(8), zipped).
horiz_edge(res, w, edge_y, s) ==
    LET base(r) == (edge_y - 2 + r) * w
        chunk(r, m) == [i \in LaneIdx |-> res[base(r) + 8 * m + i]]
        out == [m \in 0 .. ((w \div 8) - 1) |->
                   process_simd(chunk(0, m), chunk(1, m), chunk(2, m), chunk(3, m), s)]
    IN  [idx \in DOMAIN res |->
            LET r == (idx \div w) - (edge_y - 2)
                c == idx % w
            IN  IF r \in 0 .. 3 /\ c < 8 * (w \div 8)
                THEN out[c \div 8][r + 1][c % 8]
                ELSE res[idx]]

\* fn deblock_horiz, the while loop (lines 143-161) while edge_y <= height - 2.
\* When the usize subtraction height - 2 has wrapped, its value is at least
\* 2^64 - 2, above every edge_y the loop can reach, so the loop condition is
\* true.  split_at_mut panics when its index exceeds the slice: the five
\* splits of one iteration need (edge_y + 2) * width <= len.
RECURSIVE horiz_loop(_, _, _, _, _, _)
horiz_loop(res, w, height, wrapped, s, edge_y) ==
    IF wrapped \/ edge_y <= height - 2
    THEN IF (edge_y + 2) * w > PlaneLen(res)
         THEN [data |-> res, panic |-> TRUE]
         ELSE horiz_loop(horiz_edge(res, w, edge_y, s), w, height, wrapped, s, edge_y + 8)
    ELSE [data |-> res, panic |-> FALSE]

\* fn deblock_horiz(result, width, height, strength).  `height - 2` is a
\* usize subtraction: below 2 it panics when overflow checks are compiled in
\* and wraps otherwise.
deblock_horiz(res, w, height, s, checks) ==
    IF height < 2 /\ checks
    THEN [data |-> res, panic |-> TRUE]
    ELSE horiz_loop(res, w, height, height < 2, s, 8)

\* The chunks visited if step_by(2) were missing: every complete chunk.
vert_chunks_nostep(w) == 0 .. (((w - 6) \div 4) - 1)

\* The chunks row[6..].chunks_exact_mut(4).step_by(2) visits: the complete
\* 4-sample chunks of the row from column 6 on, every second one.
vert_chunks(w) == { k \in 0 .. (((w - 6) \div 4) - 1) : k % 2 = 0 }

\* fn deblock_vert(result, width, strength) (lines 165-185): in every
\* complete row, process runs on each visited chunk.
deblock_vert(res, w, s) ==
    IF w >= 10
    THEN [idx \in DOMAIN res |->
            LET r == idx \div w
                c == idx % w
                k == (c - 6) \div 4
                at == r * w + 6 + 4 * k
            IN  IF r < PlaneLen(res) \div w /\ c >= 6 /\ k \in vert_chunks(w)
                THEN process(res[at], res[at + 1], res[at + 2], res[at + 3], s)[c - (6 + 4 * k) + 1]
                ELSE res[idx]]
    ELSE res

\* pub fn deblock(data, width, strength) (lines 191-202): the call of
\* deblock_horiz is commented out; only deblock_vert runs on the copy.
deblock(d, w, s) == deblock_vert(d, w, s)

(***************************************************************************)
(* The plane passes as a state machine: a plane is loaded, then one of     *)
(* deblock_horiz, deblock_vert or deblock is called on it.                 *)
(***************************************************************************)
\* The sample levels of the input planes.
PlaneLevel(k) == (k * 37) % 256

\* The input planes: 8x8 blocks in a checkerboard of two levels, so that
\* every block edge, horizontal and vertical, carries a step, with a fine
\* texture of amplitude 4 inside the blocks.
BlockPlane(w, h, p, q) ==
    [idx \in 0 .. (w * h - 1) |->
        (IF (((idx % w) \div 8) + ((idx \div w) \div 8)) % 2 = 0
         THEN PlaneLevel(p) ELSE PlaneLevel(q))
        + 4 * (((idx % w) + (idx \div w)) % 2)]

InitPlane ==
    /\ planePc = "idle"
    /\ data = << >>
    /\ width = 1
    /\ planeStrength = 0
    /\ overflow_checks = FALSE
    /\ planeOp = "none"
    /\ result = << >>
    /\ planePanic = FALSE

\* The caller's plane: len is a multiple of width (the debug_assert! of
\* deblock), width >= 1.
LoadPlane ==
    /\ planePc = "idle"
    /\ \E w \in 1 .. MaxWidth, h \in 0 .. MaxHeight, p \in 0 .. MaxLevel,
          q \in 0 .. MaxLevel, s \in Strengths, chk \in BOOLEAN :
          /\ data' = BlockPlane(w, h, p, q)
          /\ width' = w
          /\ planeStrength' = s
          /\ overflow_checks' = chk
    /\ planePc' = "loaded"
    /\ UNCHANGED <<planeOp, result, planePanic>>
    /\ UNCHANGED <<edgeVars, yuvVars, colourVars>>

\* deblock_horiz(result, width, height, strength) with height = len / width.
DeblockHoriz ==
    /\ planePc = "loaded"
    /\ LET r == deblock_horiz(data, width, PlaneLen(data) \div width,
                              planeStrength, overflow_checks)
       IN  /\ result' = r.data
           /\ planePanic' = r.panic
    /\ planeOp' = "deblock_horiz"
    /\ planePc' = "done"
    /\ UNCHANGED <<data, width, planeStrength, overflow_checks>>
    /\ UNCHANGED <<edgeVars, yuvVars, colourVars>>

\* deblock_vert(result, width, strength).
DeblockVert ==
    /\ planePc = "loaded"
    /\ result' = deblock_vert(data, width, planeStrength)
    /\ planePanic' = FALSE
    /\ planeOp' = "deblock_vert"
    /\ planePc' = "done"
    /\ UNCHANGED <<data, width, planeStrength, overflow_checks>>
    /\ UNCHANGED <<edgeVars, yuvVars, colourVars>>

\* deblock(data, width, strength).
Deblock ==
    /\ planePc = "loaded"
    /\ result' = deblock(data, width, planeStrength)
    /\ planePanic' = FALSE
    /\ planeOp' = "deblock"
    /\ planePc' = "done"
    /\ UNCHANGED <<data, width, planeStrength, overflow_checks>>
    /\ UNCHANGED <<edgeVars, yuvVars, colourVars>>

NextPlane == LoadPlane \/ DeblockHoriz \/ DeblockVert \/ Deblock

(***************************************************************************)
(* bt601.rs: the lookup tables of LUTs::new.                               *)
(*                                                                         *)
(* The source evaluates the linear maps in f32 and rounds (f32::round:     *)
(* half away from zero).  For each of the 256 arguments the f32 result     *)
(* rounds to the same integer as the exact product, so the tables are      *)
(* given by exact integer arithmetic.  TLC's integers are 32 bits wide:    *)
(* the chroma product is split so that no intermediate exceeds them.       *)
(***************************************************************************)
\* round(n / d), half away from zero, d > 0.
RoundDiv(n, d) == Signum(n) * ((2 * Abs(n) + d) \div (2 * d))

\* fn remap_luma(luma): ((luma - 16.0) * (255.0 / (235.0 - 16.0)) * 16.0).round()
remap_luma(luma) == RoundDiv((luma - 16) * 255 * 16, 235 - 16)

\* fn remap_chroma(chroma, coeff):
\*   (((chroma - 16.0) * (255.0 / (240.0 - 16.0)) - 128.0) * coeff * 16.0).round()
\* with coeff given in millionths.  With n = (chroma - 16) * 255 - 128 * 224
\* the value is n * micro * 16 / (224 * 10^6) = n * micro / (14 * 10^6);
\* writing |micro| = hi * 1000 + lo, round(|n| * |micro| / (14 * 10^6)) is
\* (2 * |n| * hi + 14000 + (2 * |n| * lo) div 1000) div 28000.
remap_chroma(chroma, micro) ==
    LET n  == Abs((chroma - 16) * 255 - 128 * (240 - 16))
        hi == Abs(micro) \div 1000
        lo == Abs(micro) % 1000
        sg == Signum((chroma - 16) * 255 - 128 * (240 - 16)) * Signum(micro)
    IN  sg * ((2 * n * hi + 14000 + ((2 * n * lo) \div 1000)) \div 28000)

y_to_gray == [i \in U8 |-> remap_luma(i)]
cr_to_r   == [i \in U8 |-> remap_chroma(i, 1370705)]
cr_to_g   == [i \in U8 |-> remap_chroma(i, -698001)]
cb_to_g   == [i \in U8 |-> remap_chroma(i, -337633)]
cb_to_b   == [i \in U8 |-> remap_chroma(i, 1732446)]

\* fn yuv_to_rgb(yuv, luts) -> (r, g, b)
yuv_to_rgb(yy, cb, cr) ==
    LET gray == y_to_gray[yy]
        r == Shr(gray + cr_to_r[cr] + 8, 4)
        g == Shr(gray + cr_to_g[cr] + cb_to_g[cb] + 8, 4)
        b == Shr(gray + cb_to_b[cb] + 8, 4)
    IN  << AsU8(Clamp(r, 0, 255)), AsU8(Clamp(g, 0, 255)), AsU8(Clamp(b, 0, 255)) >>

(***************************************************************************)
(* bt601.rs: the two interpolation steps.  A colour is a triple            *)
(* <<y, cb, cr>>; the intermediates of step 1 are u16.                     *)
(***************************************************************************)
AsU16(x) == x % 65536

\* Step 1 with one term of the near sample missing: 2:1 instead of 3:1.
bilerp_chroma_step1_short(a, b) ==
    << a[1], AsU16(a[2] + a[2] + b[2]), AsU16(a[3] + a[3] + b[3]) >>

\* fn bilerp_chroma_step1(a, b) -> (u8, u16, u16)
bilerp_chroma_step1(a, b) ==
    << a[1], AsU16(a[2] + a[2] + a[2] + b[2]), AsU16(a[3] + a[3] + a[3] + b[3]) >>

\* Step 2 with the rounding of lerp_chroma (+ 2) instead of + 8.
bilerp_chroma_step2_round2(a, b) ==
    << a[1],
       AsU8(AsU16(a[2] + a[2] + a[2] + b[2] + 2) \div 16),
       AsU8(AsU16(a[3] + a[3] + a[3] + b[3] + 2) \div 16) >>

\* fn bilerp_chroma_step2(a, b) -> (u8, u8, u8)
bilerp_chroma_step2(a, b) ==
    << a[1],
       AsU8(AsU16(a[2] + a[2] + a[2] + b[2] + 8) \div 16),
       AsU8(AsU16(a[3] + a[3] + a[3] + b[3] + 8) \div 16) >>

(***************************************************************************)
(* bt601.rs: get_two_rows / get_two_rows_mut.                              *)
(***************************************************************************)
\* The three debug_assert! preconditions (lines 146-148, 162-164).
get_two_rows_pre(len, start, w, stride) ==
    /\ start + w <= len
    /\ start + stride + w <= len
    /\ stride >= w

\* The slice operations of lines 150-154 succeed: of[start..], split_at(width),
\* the usize subtraction stride - width, rest[(stride - width)..stride].
get_two_rows_slices(len, start, w, stride) ==
    /\ start <= len
    /\ w <= len - start
    /\ stride >= w
    /\ stride <= len - start - w

\* The call returns: the assertions hold where compiled in, the slices exist.
get_two_rows_ok(len, start, w, stride, dbg) ==
    /\ dbg => get_two_rows_pre(len, start, w, stride)
    /\ get_two_rows_slices(len, start, w, stride)

\* fn get_two_rows(of, start, width, stride) -> (top_row, bottom_row)
get_two_rows(of, start, w, stride) ==
    << [i \in 0 .. (w - 1) |-> of[start + i]],
       [i \in 0 .. (w - 1) |-> of[start + stride + i]] >>

(***************************************************************************)
(* bt601.rs: yuv420_to_rgba.                                               *)
(***************************************************************************)
\* The debug_assert_eq! of lines 197-200, in order; a remainder by zero
\* panics like a failed assertion.
head_asserts(yp, cbp, crp, yw, brw) ==
    << [what |-> "y.len() % y_width == 0",
        ok   |-> yw # 0 /\ PlaneLen(yp) % yw = 0],
       [what |-> "chroma_b.len() % br_width == 0",
        ok   |-> brw # 0 /\ PlaneLen(cbp) % brw = 0],
       [what |-> "chroma_r.len() % br_width == 0",
        ok   |-> brw # 0 /\ PlaneLen(crp) % brw = 0],
       [what |-> "chroma_b.len() == chroma_r.len()",
        ok   |-> PlaneLen(cbp) = PlaneLen(crp)] >>

\* Evaluating a list of assertions in order, up to the first that fails.
run_asserts(list) ==
    LET bad  == { i \in 1 .. Len(list) : ~list[i].ok }
        last == IF bad = {} THEN Len(list)
                ELSE CHOOSE i \in bad : \A j \in bad : i <= j
    IN  [evaluated |-> [i \in 1 .. last |-> list[i].what], panic |-> bad # {}]

\* One iteration of the inner loop (lines 255-290): the 2x2 chroma samples,
\* the 2x2 luma samples, the two interpolation steps, the conversion; the
\* result is the two 8-byte groups copied into rgba_u and rgba_l.
quad_pixels(y_u, y_l, cb_u, cb_l, cr_u, cr_l, c) ==
    LET topleft     == << y_u[2 * c],     cb_u[c],     cr_u[c] >>
        bottomleft  == << y_l[2 * c],     cb_l[c],     cr_l[c] >>
        topright    == << y_u[2 * c + 1], cb_u[c + 1], cr_u[c + 1] >>
        bottomright == << y_l[2 * c + 1], cb_l[c + 1], cr_l[c + 1] >>
        topleft_intermediate     == bilerp_chroma_step1(topleft, topright)
        topright_intermediate    == bilerp_chroma_step1(topright, topleft)
        bottomleft_intermediate  == bilerp_chroma_step1(bottomleft, bottomright)
        bottomright_intermediate == bilerp_chroma_step1(bottomright, bottomleft)
        topleft_final     == bilerp_chroma_step2(topleft_intermediate, bottomleft_intermediate)
        bottomleft_final  == bilerp_chroma_step2(bottomleft_intermediate, topleft_intermediate)
        topright_final    == bilerp_chroma_step2(topright_intermediate, bottomright_intermediate)
        bottomright_final == bilerp_chroma_step2(bottomright_intermediate, topright_intermediate)
        topleft_rgb     == yuv_to_rgb(topleft_final[1], topleft_final[2], topleft_final[3])
        topright_rgb    == yuv_to_rgb(topright_final[1], topright_final[2], topright_final[3])
        bottomleft_rgb  == yuv_to_rgb(bottomleft_final[1], bottomleft_final[2], bottomleft_final[3])
        bottomright_rgb == yuv_to_rgb(bottomright_final[1], bottomright_final[2], bottomright_final[3])
    IN  [upper |-> << topleft_rgb[1], topleft_rgb[2], topleft_rgb[3], 255,
                      topright_rgb[1], topright_rgb[2], topright_rgb[3], 255 >>,
         lower |-> << bottomleft_rgb[1], bottomleft_rgb[2], bottomleft_rgb[3], 255,
                      bottomright_rgb[1], bottomright_rgb[2], bottomright_rgb[3], 255 >>]

\* copy_from_slice of the two 8-byte groups at byte offsets at_u and at_l.
write_quad(st, at_u, at_l, px) ==
    [st EXCEPT
        !.rgba = [i \in DOMAIN st.rgba |->
                    IF i \in at_u .. (at_u + 7) THEN px.upper[i - at_u + 1]
                    ELSE IF i \in at_l .. (at_l + 7) THEN px.lower[i - at_l + 1]
                    ELSE st.rgba[i]],
        !.writes = [i \in DOMAIN st.writes |->
                    IF i \in at_u .. (at_u + 7) \/ i \in at_l .. (at_l + 7)
                    THEN st.writes[i] + 1 ELSE st.writes[i]]]

\* The number of items a zip of the four iterators of lines 249-253 yields:
\* chunks(2) of the luma rows, windows(2) of the chroma rows, chunks_mut(8)
\* of the output rows.
zip_len(luma_w, br_w, rgba_w) ==
    Min(Min((luma_w + 1) \div 2, Max(br_w - 1, 0)), (rgba_w + 7) \div 8)

\* The inner loop of one chroma row, from item c on.
RECURSIVE yuv_cols(_, _, _, _, _, _, _)
yuv_cols(st, yr, cbr, crr, at, stride, c) ==
    IF c >= zip_len(PlaneLen(yr[1]), PlaneLen(cbr[1]), PlaneLen(yr[1]) * 4)
    THEN st
    ELSE yuv_cols(write_quad(st, at + 8 * c, at + stride + 8 * c,
                             quad_pixels(yr[1], yr[2], cbr[1], cbr[2], crr[1], crr[2], c)),
                  yr, cbr, crr, at, stride, c + 1)

\* The row selection with the luma and output rows as wide as 2 * br_width.
two_rows_calls_wide(ylen, blen, rlen, yw, brw, chroma_row) ==
    LET luma_row    == chroma_row * 2 + 1
        rgba_stride == yw * 4
    IN  << [len |-> ylen, start |-> luma_row * yw + 1,
            width |-> 2 * brw, stride |-> yw],
           [len |-> blen, start |-> chroma_row * brw, width |-> brw, stride |-> brw],
           [len |-> rlen, start |-> chroma_row * brw, width |-> brw, stride |-> brw],
           [len |-> ylen * 4, start |-> luma_row * rgba_stride + 4,
            width |-> 2 * brw * 4, stride |-> rgba_stride] >>

\* The arguments of the four calls of lines 242-245 in iteration chroma_row,
\* in order: get_two_rows on y, chroma_b, chroma_r, get_two_rows_mut on rgba
\* (rgba is vec![0; y.len() * 4], line 213).
two_rows_calls(ylen, blen, rlen, yw, brw, chroma_row) ==
    LET luma_row    == chroma_row * 2 + 1
        rgba_stride == yw * 4
    IN  << [len |-> ylen, start |-> luma_row * yw + 1,
            width |-> 2 * (brw - 1), stride |-> yw],
           [len |-> blen, start |-> chroma_row * brw, width |-> brw, stride |-> brw],
           [len |-> rlen, start |-> chroma_row * brw, width |-> brw, stride |-> brw],
           [len |-> ylen * 4, start |-> luma_row * rgba_stride + 4,
            width |-> 2 * (brw - 1) * 4, stride |-> rgba_stride] >>

\* The outer loop (lines 235-291), from chroma_row on.
RECURSIVE yuv_rows(_, _, _, _, _, _, _, _, _)
yuv_rows(st, yp, cbp, crp, yw, brw, brh, dbg, chroma_row) ==
    IF chroma_row >= brh - 1
    THEN st
    ELSE
      LET call == two_rows_calls(PlaneLen(yp), PlaneLen(cbp), PlaneLen(crp),
                                 yw, brw, chroma_row)
      IN  IF \A k \in 1 .. 4 :
                get_two_rows_ok(call[k].len, call[k].start, call[k].width,
                                call[k].stride, dbg)
          THEN yuv_rows(
                 yuv_cols(st,
                          get_two_rows(yp, call[1].start, call[1].width, call[1].stride),
                          get_two_rows(cbp, call[2].start, call[2].width, call[2].stride),
                          get_two_rows(crp, call[3].start, call[3].width, call[3].stride),
                          call[4].start, call[4].stride, 0),
                 yp, cbp, crp, yw, brw, brh, dbg, chroma_row + 1)
          ELSE [st EXCEPT !.panic = TRUE]

\* pub fn yuv420_to_rgba(y, chroma_b, chroma_r, y_width, br_width), with the
\* build setting dbg (debug_assert! compiled in).  The border loops of
\* lines 293-324 are commented out in the source.
yuv420_to_rgba(yp, cbp, crp, yw, brw, dbg) ==
    LET head == IF dbg THEN run_asserts(head_asserts(yp, cbp, crp, yw, brw))
                ELSE [evaluated |-> << >>, panic |-> FALSE]
        none == [rgba |-> << >>, writes |-> << >>,
                 evaluated |-> head.evaluated, panic |-> head.panic]
    IN  IF head.panic THEN none
        ELSE IF PlaneLen(yp) = 0 THEN none       \* if y.is_empty() { return vec![] }
        ELSE IF yw = 0                           \* line 206 divides by zero
        THEN [none EXCEPT !.panic = TRUE,
                          !.evaluated = head.evaluated \o << "y.len() / y_width" >>]
        ELSE IF brw = 0                          \* line 207 divides by zero
        THEN [none EXCEPT !.panic = TRUE,
                          !.evaluated = head.evaluated
                              \o << "y.len() / y_width", "chroma_b.len() / br_width" >>]
        ELSE
          LET y_height  == PlaneLen(yp) \div yw
              br_height == PlaneLen(cbp) \div brw
              tail == IF dbg
                      THEN run_asserts(
                             << [what |-> "(y_width + 1) / 2 == br_width",
                                 ok   |-> (yw + 1) \div 2 = brw],
                                [what |-> "(y_height + 1) / 2 == br_height",
                                 ok   |-> (y_height + 1) \div 2 = br_height] >>)
                      ELSE [evaluated |-> << >>, panic |-> FALSE]
              ev == head.evaluated
                    \o << "y.len() / y_width", "chroma_b.len() / br_width" >>
                    \o tail.evaluated
              zero == [i \in 0 .. (PlaneLen(yp) * 4 - 1) |-> 0]
              st0 == [rgba |-> zero, writes |-> zero, evaluated |-> ev, panic |-> FALSE]
          \* br_height - 1 is a usize subtraction: with br_height = 0 it panics
          \* where overflow is checked, and where it wraps the first
          \* get_two_rows on the (empty) chroma plane panics.
          IN  IF tail.panic \/ br_height = 0
              THEN [none EXCEPT !.panic = TRUE, !.evaluated = ev]
              ELSE yuv_rows(st0, yp, cbp, crp, yw, brw, br_height, dbg, 0)

(***************************************************************************)
(* The conversion as a state machine: a frame is loaded, then              *)
(* yuv420_to_rgba is called on it.                                         *)
(***************************************************************************)
\* The sample values of the input planes: an even seed gives a flat plane
\* (seed 0: all samples 255), an odd seed a textured one.
TexValue(seed, i) ==
    IF seed % 2 = 0
    THEN (255 + seed * 83) % 256
    ELSE (seed * 83 + i * i * 7 + i * 31) % 256

TexPlane(seed, len) == [i \in 0 .. (len - 1) |-> TexValue(seed, i)]

InitYuv ==
    /\ yuvPc = "idle"
    /\ y = << >>
    /\ chroma_b = << >>
    /\ chroma_r = << >>
    /\ y_width = 0
    /\ br_width = 0
    /\ debug_assertions = FALSE
    /\ rgba = << >>
    /\ writes = << >>
    /\ evaluated = << >>
    /\ yuvPanic = FALSE

\* A frame that satisfies the documented preconditions (lines 181-189):
\* y_width x y_height luma samples, ceil(y_width / 2) x ceil(y_height / 2)
\* samples in each chroma plane.
LoadFrame ==
    /\ yuvPc = "idle"
    /\ \E w \in 1 .. MaxYWidth, h \in 1 .. MaxYHeight,
          sy \in 0 .. MaxSeed, sb \in 0 .. MaxSeed, sr \in 0 .. MaxSeed,
          dbg \in BOOLEAN :
          /\ y' = TexPlane(sy, w * h)
          /\ chroma_b' = TexPlane(sb, ((w + 1) \div 2) * ((h + 1) \div 2))
          /\ chroma_r' = TexPlane(sr, ((w + 1) \div 2) * ((h + 1) \div 2))
          /\ y_width' = w
          /\ br_width' = (w + 1) \div 2
          /\ debug_assertions' = dbg
    /\ yuvPc' = "loaded"
    /\ UNCHANGED <<rgba, writes, evaluated, yuvPanic>>
    /\ UNCHANGED <<edgeVars, planeVars, colourVars>>

\* An empty Y plane, with whatever else the caller passes.
LoadEmpty ==
    /\ yuvPc = "idle"
    /\ \E w \in 0 .. MaxYWidth, bw \in 0 .. MaxYWidth,
          nb \in 0 .. MaxEmptyChroma, nr \in 0 .. MaxEmptyChroma,
          dbg \in BOOLEAN :
          /\ y' = << >>
          /\ chroma_b' = TexPlane(1, nb)
          /\ chroma_r' = TexPlane(1, nr)
          /\ y_width' = w
          /\ br_width' = bw
          /\ debug_assertions' = dbg
    /\ yuvPc' = "loaded"
    /\ UNCHANGED <<rgba, writes, evaluated, yuvPanic>>
    /\ UNCHANGED <<edgeVars, planeVars, colourVars>>

\* yuv420_to_rgba(y, chroma_b, chroma_r, y_width, br_width).
Yuv420ToRgba ==
    /\ yuvPc = "loaded"
    /\ LET r == yuv420_to_rgba(y, chroma_b, chroma_r, y_width, br_width,
                               debug_assertions)
       IN  /\ rgba' = r.rgba
           /\ writes' = r.writes
           /\ evaluated' = r.evaluated
           /\ yuvPanic' = r.panic
    /\ yuvPc' = "done"
    /\ UNCHANGED <<y, chroma_b, chroma_r, y_width, br_width, debug_assertions>>
    /\ UNCHANGED <<edgeVars, planeVars, colourVars>>

NextYuv == LoadFrame \/ LoadEmpty \/ Yuv420ToRgba

(***************************************************************************)
(* yuv_to_rgb as a state machine: one colour is loaded, then converted     *)
(* with the tables of LUTs::new.                                           *)
(***************************************************************************)
\* The chroma samples of the loaded colours: the ends of the nominal range
\* 16..240 and the zero colour difference 128.
ColourChroma == {16, 128, 240}

InitColour ==
    /\ colourPc = "idle"
    /\ colourIn = <<0, 0, 0>>
    /\ colourOut = << >>

LoadColour ==
    /\ colourPc = "idle"
    /\ \E yy \in U8, cb \in ColourChroma, cr \in ColourChroma :
          colourIn' = <<yy, cb, cr>>
    /\ colourPc' = "loaded"
    /\ UNCHANGED colourOut
    /\ UNCHANGED <<edgeVars, planeVars, yuvVars>>

\* yuv_to_rgb(yuv, &LUTS).
YuvToRgb ==
    /\ colourPc = "loaded"
    /\ colourOut' = yuv_to_rgb(colourIn[1], colourIn[2], colourIn[3])
    /\ colourPc' = "done"
    /\ UNCHANGED colourIn
    /\ UNCHANGED <<edgeVars, planeVars, yuvVars>>

NextColour == LoadColour \/ YuvToRgb

(***************************************************************************)
(* Specifications.                                                         *)
(***************************************************************************)
Init == InitEdge /\ InitPlane /\ InitYuv /\ InitColour

\* One colour alone.
SpecColour == Init /\ [][NextColour]_vars

\* The edge filter alone.
SpecEdge == Init /\ [][NextEdge]_vars

\* The plane passes alone.
SpecPlane == Init /\ [][NextPlane]_vars

\* The colour conversion alone.
SpecYuv == Init /\ [][NextYuv]_vars

Next == NextEdge \/ NextPlane \/ NextYuv \/ NextColour

Spec == Init /\ [][Next]_vars

(***************************************************************************)
(* Properties of the edge filter (checked under SpecEdge).                 *)
(***************************************************************************)
\* Lane i of the loaded slices is flat: its four samples are equal.
FlatLane(i) == rowA[i] = rowB[i] /\ rowB[i] = rowC[i] /\ rowC[i] = rowD[i]

\* C1: scalar/SIMD parity -- once process and process_simd have both run on
\* the same four samples with the same strength, the four bytes process_simd
\* wrote in that lane are exactly the four bytes process wrote.
C1_ScalarSimdParity ==
    (scalarOut # << >> /\ simdOut # << >>) =>
        \A j \in 1 .. 4 : simdOut[j][lane] = scalarOut[j]

\* C7: flat-region invariant -- when A = B = C = D = v, process leaves all
\* four samples at v, and process_simd leaves every flat lane at its value,
\* for every u8 v and every strength 0..12.
C7_FlatRegion ==
    /\ (scalarOut # << >> /\ FlatLane(lane)) =>
           \A j \in 1 .. 4 : scalarOut[j] = rowA[lane]
    /\ simdOut # << >> =>
           \A i \in LaneIdx : FlatLane(i) =>
               \A j \in 1 .. 4 : simdOut[j][i] = rowA[i]

\* C7 witness: a flat region at 255 filtered at strength 12 by both kernels.
C7_Witness ==
    /\ scalarOut # << >>
    /\ simdOut # << >>
    /\ FlatLane(lane)
    /\ rowA[lane] = 255
    /\ strength = MaxStrength

\* C11: outer samples stay in range without a clamp -- the values A - d2
\* and D + d2 computed by process, and by process_simd in every lane, lie in
\* 0..255, so the bytes written for A' and D' are these values unwrapped.
C11_OuterInRange ==
    /\ scalarOut # << >> =>
           LET d2 == process_d2(rowA[lane], rowB[lane], rowC[lane], rowD[lane], strength)
           IN  /\ rowA[lane] - d2 \in U8
               /\ rowD[lane] + d2 \in U8
               /\ scalarOut[1] = rowA[lane] - d2
               /\ scalarOut[4] = rowD[lane] + d2
    /\ simdOut # << >> =>
           \A i \in LaneIdx :
               LET d2 == process_simd_d2(rowA[i], rowB[i], rowC[i], rowD[i], strength)
               IN  /\ rowA[i] - d2 \in U8
                   /\ rowD[i] + d2 \in U8
                   /\ simdOut[1][i] = rowA[i] - d2
                   /\ simdOut[4][i] = rowD[i] + d2

\* C11 witness: both kernels have run on samples whose outer pair is moved
\* by d2 = -3 (A = 0 is raised to 3, D = 16 is lowered to 13).
C11_Witness ==
    /\ scalarOut # << >>
    /\ simdOut # << >>
    /\ rowA[lane] = 0 /\ rowB[lane] = 0 /\ rowC[lane] = 16 /\ rowD[lane] = 16
    /\ process_d2(rowA[lane], rowB[lane], rowC[lane], rowD[lane], strength) = -3
    /\ scalarOut[1] = 3 /\ scalarOut[4] = 13
    /\ simdOut[1][lane] = 3 /\ simdOut[4][lane] = 13

(***************************************************************************)
(* Properties of the plane passes (checked under SpecPlane).               *)
(***************************************************************************)
Height == PlaneLen(data) \div width

\* C2: deblock runs the horizontal pass and then the vertical pass -- its
\* result is deblock_vert applied to the plane deblock_horiz leaves (stated
\* for the planes on which deblock_horiz returns).
C2_HorizThenVert ==
    (planePc = "done" /\ planeOp = "deblock") =>
        LET h == deblock_horiz(data, width, Height, planeStrength, overflow_checks)
        IN  ~h.panic => result = deblock_vert(h.data, width, planeStrength)

\* C6: small planes are left alone -- with height < 10 deblock_horiz returns
\* normally and changes no sample; with width < 10 deblock_vert and deblock
\* return normally and change no sample.
C6_SmallPlanesUntouched ==
    /\ (planePc = "done" /\ planeOp = "deblock_horiz" /\ Height < 10) =>
           (~planePanic /\ result = data)
    /\ (planePc = "done" /\ planeOp \in {"deblock_vert", "deblock"} /\ width < 10) =>
           (~planePanic /\ result = data)

\* The edge columns 8, 16, 24, ... up to width - 2.
EdgeCols(w) == { x \in 8 .. (w - 2) : x % 8 = 0 }

\* C9: vertical pass coverage and frame -- for width >= 10, in every row
\* the samples of columns x-2, x-1, x, x+1 of each edge column x (8, 16, ...
\* with x <= width - 2) are those process returns for the four input samples,
\* applied once; every other sample (columns 0..5, columns c with c mod 8 in
\* 2..5, an incomplete last group) is unchanged; the length is unchanged.
C9_VertCoverage ==
    (planePc = "done" /\ planeOp \in {"deblock_vert", "deblock"} /\ width >= 10) =>
        /\ ~planePanic
        /\ DOMAIN result = DOMAIN data
        /\ \A idx \in DOMAIN data :
              LET c == idx % width
                  x == 8 * ((c + 2) \div 8)
                  at == idx - c + x - 2
              IN  /\ IF x \in EdgeCols(width) /\ c <= x + 1
                     THEN result[idx] =
                            process(data[at], data[at + 1], data[at + 2], data[at + 3],
                                    planeStrength)[c - (x - 2) + 1]
                     ELSE result[idx] = data[idx]
                  /\ (c < 6 \/ c % 8 \in 2 .. 5) => result[idx] = data[idx]

\* C9 witness: deblock_vert has run on a plane 17 samples wide (edge column
\* 8 is filtered, column 16 has no complete window) and changed it.
C9_Witness ==
    /\ planePc = "done"
    /\ planeOp = "deblock_vert"
    /\ width = 17
    /\ Height >= 2
    /\ result # data
    /\ \E idx \in DOMAIN data : idx % width = 8 /\ result[idx] # data[idx]

(***************************************************************************)
(* Properties of yuv_to_rgb (checked under SpecColour).                    *)
(***************************************************************************)
\* C4: conversion exactness at zero colour difference (cb = cr = 128) --
\* y = 16 and y = 15 give (0,0,0), y = 235 and y = 236 give (255,255,255),
\* y = 125 gives (127,127,127), y = 126 gives (128,128,128).
C4_Exactness ==
    (colourPc = "done" /\ colourIn[2] = 128 /\ colourIn[3] = 128) =>
        /\ colourIn[1] \in {15, 16} => colourOut = <<0, 0, 0>>
        /\ colourIn[1] \in {235, 236} => colourOut = <<255, 255, 255>>
        /\ colourIn[1] = 125 => colourOut = <<127, 127, 127>>
        /\ colourIn[1] = 126 => colourOut = <<128, 128, 128>>

(***************************************************************************)
(* Properties of yuv420_to_rgba (checked under SpecYuv).                   *)
(***************************************************************************)
YHeight == PlaneLen(y) \div y_width
BrHeight == PlaneLen(chroma_b) \div br_width

\* The call has returned a buffer for a non-empty frame.
Converted == yuvPc = "done" /\ PlaneLen(y) > 0 /\ ~yuvPanic

\* C3: for a non-empty frame that satisfies the preconditions the call
\* returns 4 * y.len() bytes and the alpha byte of every pixel is 255,
\* border pixels included.
C3_AlphaOpaque ==
    (yuvPc = "done" /\ PlaneLen(y) > 0) =>
        /\ ~yuvPanic
        /\ PlaneLen(rgba) = 4 * PlaneLen(y)
        /\ \A p \in 0 .. (PlaneLen(y) - 1) : rgba[4 * p + 3] = 255

\* C5: with an empty Y plane the call returns an empty buffer and evaluates
\* no assertion, division or remainder first, whatever the other arguments.
C5_EmptyNoComputation ==
    (yuvPc = "done" /\ PlaneLen(y) = 0) =>
        /\ ~yuvPanic
        /\ rgba = << >>
        /\ evaluated = << >>

\* The RGB bytes written for the luma sample at (row, col).
PixelAt(row, col) ==
    LET p == 4 * (row * y_width + col)
    IN  << rgba[p], rgba[p + 1], rgba[p + 2] >>

\* The 2x2 chroma neighbourhood at chroma (r, c) and the luma quad it
\* encloses are homogeneous.
Homogeneous(r, c) ==
    /\ \A i \in {0, 1}, j \in {0, 1} :
          /\ chroma_b[(r + i) * br_width + c + j] = chroma_b[r * br_width + c]
          /\ chroma_r[(r + i) * br_width + c + j] = chroma_r[r * br_width + c]
          /\ y[(2 * r + 1 + i) * y_width + 2 * c + 1 + j] = y[(2 * r + 1) * y_width + 2 * c + 1]

\* C8: chroma homogeneity -- where the four Cb samples, the four Cr samples
\* and the four enclosed luma samples of an interior quad are each equal,
\* the four pixels written are identical and equal to the direct conversion
\* yuv_to_rgb((y, cb, cr)).
C8_Homogeneity ==
    Converted =>
        \A r \in 0 .. (BrHeight - 2), c \in 0 .. (br_width - 2) :
            Homogeneous(r, c) =>
                \A i \in {0, 1}, j \in {0, 1} :
                    PixelAt(2 * r + 1 + i, 2 * c + 1 + j) =
                        yuv_to_rgb(y[(2 * r + 1) * y_width + 2 * c + 1],
                                   chroma_b[r * br_width + c],
                                   chroma_r[r * br_width + c])

\* C8 witness: a converted frame with a homogeneous interior quad whose
\* chroma is not the one of the zero-initialised buffer.
C8_Witness ==
    /\ Converted
    /\ BrHeight >= 3 /\ br_width >= 3
    /\ Homogeneous(1, 1)
    /\ PixelAt(3, 3) # <<0, 0, 0>>

\* The fused interpolation of one plane at chroma (r, c), corner (i, j):
\* (9 * near + 3 * horizontal + 3 * vertical + diagonal + 8) div 16.
Fused(pl, r, c, i, j) ==
    (9 * pl[(r + i) * br_width + c + j]
     + 3 * pl[(r + i) * br_width + c + 1 - j]
     + 3 * pl[(r + 1 - i) * br_width + c + j]
     + pl[(r + 1 - i) * br_width + c + 1 - j]
     + 8) \div 16

\* C10: fused two-stage interpolation -- for chroma_row r in 0..br_height-1
\* and chroma column c in 0..br_width-1 (both exclusive), the pixel at
\* (2r+1+i, 2c+1+j) is written exactly once, with alpha 255 and with
\* yuv_to_rgb of its own Y sample and the fused values of Cb and Cr, which
\* never exceed 255; no byte is written twice.
C10_FusedInterpolation ==
    Converted =>
        /\ \A b \in DOMAIN writes : writes[b] <= 1
        /\ \A r \in 0 .. (BrHeight - 2), c \in 0 .. (br_width - 2) :
              \A i \in {0, 1}, j \in {0, 1} :
                 LET row == 2 * r + 1 + i
                     col == 2 * c + 1 + j
                     p == 4 * (row * y_width + col)
                 IN  /\ \A k \in 0 .. 3 : writes[p + k] = 1
                     /\ Fused(chroma_b, r, c, i, j) <= 255
                     /\ Fused(chroma_r, r, c, i, j) <= 255
                     /\ PixelAt(row, col) =
                            yuv_to_rgb(y[row * y_width + col],
                                       Fused(chroma_b, r, c, i, j),
                                       Fused(chroma_r, r, c, i, j))
                     /\ rgba[p + 3] = 255

\* C10 witness: a converted 5x5 frame with textured chroma planes: two
\* chroma rows by two chroma columns of interior quads have been written.
C10_Witness ==
    /\ Converted
    /\ y_width = 5 /\ YHeight = 5
    /\ chroma_b = TexPlane(1, 9)
    /\ chroma_r = TexPlane(1, 9)
    /\ writes[4 * (4 * 5 + 4)] = 1
    /\ PixelAt(1, 1) # PixelAt(4, 4)

\* The documented preconditions (lines 181-189) on a non-empty Y plane.
WellFormed ==
    /\ PlaneLen(y) > 0
    /\ y_width >= 1
    /\ PlaneLen(y) % y_width = 0
    /\ br_width = (y_width + 1) \div 2
    /\ PlaneLen(chroma_b) = br_width * ((YHeight + 1) \div 2)
    /\ PlaneLen(chroma_r) = PlaneLen(chroma_b)

\* C12: no runtime failure under the documented preconditions -- for every
\* non-empty well-formed frame, each call of get_two_rows / get_two_rows_mut
\* made by yuv420_to_rgba satisfies its three asserted preconditions, no
\* usize subtraction underflows (br_height - 1, br_width - 1, stride - width),
\* every slice range is in bounds, the rows split into whole 2-sample and
\* 8-byte chunks, and the call returns the y.len() * 4 bytes.
C12_NoRuntimeFailure ==
    (yuvPc = "done" /\ WellFormed) =>
        /\ ~yuvPanic
        /\ PlaneLen(rgba) = 4 * PlaneLen(y)
        /\ BrHeight >= 1
        /\ br_width >= 1
        /\ \A chroma_row \in 0 .. (BrHeight - 2) :
              LET call == two_rows_calls(PlaneLen(y), PlaneLen(chroma_b),
                                         PlaneLen(chroma_r), y_width, br_width,
                                         chroma_row)
              IN  /\ \A k \in 1 .. 4 :
                        /\ call[k].start >= 0 /\ call[k].width >= 0
                        /\ get_two_rows_pre(call[k].len, call[k].start,
                                            call[k].width, call[k].stride)
                        /\ get_two_rows_slices(call[k].len, call[k].start,
                                               call[k].width, call[k].stride)
                  /\ call[4].len = PlaneLen(rgba)
                  /\ call[1].width % 2 = 0
                  /\ call[4].width % 8 = 0

\* C12 witness: a 5 x 5 frame (odd width and height, 3 x 3 chroma) has been
\* converted in a build with the assertions compiled in; the lower luma row
\* of the last call ends at the last sample of the plane.
C12_Witness ==
    /\ yuvPc = "done"
    /\ WellFormed
    /\ debug_assertions
    /\ y_width = 5 /\ YHeight = 5 /\ br_width = 3 /\ BrHeight = 3
    /\ ~yuvPanic
    /\ LET call == two_rows_calls(PlaneLen(y), PlaneLen(chroma_b),
                                  PlaneLen(chroma_r), y_width, br_width, 1)
       IN  call[1].start + call[1].stride + call[1].width = PlaneLen(y)
    /\ \E i \in DOMAIN writes : writes[i] > 0

====
